---- MODULE Spec2Model ----
(***************************************************************************)
(* Model of dashboard.py: the start-up column derivation (Hour_Group,      *)
(* Precipitation_Bin), the construction of the filter dropdowns, and the   *)
(* update_dashboard callback that filters the shared frame df and computes *)
(* the KPI numbers and the chart tables.                                   *)
(*                                                                         *)
(* Representation.  A missing cell (NaN / NaT) is the empty tuple <<>>, a  *)
(* present cell v is <<v>>.  Precipitation amounts are integers counted in *)
(* hundredths of an inch, so the bin edge 0.01 is 1 and 50 is 5000.  A     *)
(* missing category is the string NaNCat.  A frame is a record of the set  *)
(* of its column names and the sequence of its rows; a row carries every   *)
(* field, and a field is only read through a column the frame has.         *)
(***************************************************************************)
EXTENDS Integers, Sequences, FiniteSets, TLC

VARIABLES
    raw,        \* the frame read from the csv file (line 9)
    df,         \* the module-level frame shared by all callbacks
    tiePolicy,  \* how this build's unstable sort orders equal keys
    mainPc,     \* position of the module-level code
    options,    \* the value lists of the three dropdowns
    calls       \* per server thread: the position and locals of its callback

vars == <<raw, df, tiePolicy, mainPc, options, calls>>

---------------------------------------------------------------------------
(* Bounds of the model *)

MaxRows == 2      \* longest csv file of the general family
MaxHour == 24     \* largest value tried in a precomputed Hour column

(* Program constants *)

TopN == 10

NaNCat == "NaN"
NA == "N/A"

Threads == {1, 2}

(* The order in which groupby("State") lists its groups: sorted keys. *)
StateOrder == <<"AL", "AZ", "CA", "CO", "FL", "GA", "IL", "MI", "NC", "NY", "OH", "TX">>

(* The tie orders a build's sort is modelled to take: equal keys keep the  *)
(* order they had, or come out in the opposite order.                      *)
TiePolicies == {"grouping", "reverse"}

---------------------------------------------------------------------------
(* Helpers over sequences and sets *)

Min2(a, b) == IF a <= b THEN a ELSE b

SetMax(S) == CHOOSE x \in S : \A y \in S : y <= x

SetMin(S) == CHOOSE x \in S : \A y \in S : x <= y

Range(s) == {s[i] : i \in 1..Len(s)}

RemoveAt(s, i) == SubSeq(s, 1, i - 1) \o SubSeq(s, i + 1, Len(s))

RECURSIVE SumSeq(_)
SumSeq(s) == IF s = <<>> THEN 0 ELSE Head(s) + SumSeq(Tail(s))

(* Series.unique(): the distinct values in order of first appearance. *)
RECURSIVE Unique(_)
Unique(s) ==
    IF s = <<>> THEN <<>>
    ELSE LET init == Unique(SubSeq(s, 1, Len(s) - 1))
             last == s[Len(s)]
         IN  IF last \in Range(init) THEN init ELSE Append(init, last)

---------------------------------------------------------------------------
(* Start-up: column derivation *)

HourBins == <<0 - 1, 5, 11, 17, 23>>
HourLabels == <<"Night", "Morning", "Afternoon", "Evening">>

PrecipBins == <<0 - 1, 1, 10, 50, 100, 500, 5000>>
PrecipLabels == <<"None", "Trace", "Light", "Moderate", "Heavy", "Extreme">>

(* pd.to_datetime(...).dt.hour: the hour field of a timestamp <<day, hour>>, *)
(* missing for NaT.                                                          *)
HourOf(ts) == IF ts = <<>> THEN <<>> ELSE <<ts[2]>>

(* Mutant of Cut: intervals closed on the left, as with right=False. *)
CutLeftClosed(x, bins, labels) ==
    IF x = <<>> THEN NaNCat
    ELSE LET hits == {i \in 1..Len(labels) : bins[i] <= x[1] /\ x[1] < bins[i + 1]}
         IN  IF hits = {} THEN NaNCat ELSE labels[CHOOSE i \in hits : TRUE]

(* pd.cut(x, bins, labels) with the default right=True: the label of the   *)
(* interval (bins[i], bins[i+1]] that holds x, missing when x is missing   *)
(* or in no interval.                                                      *)
Cut(x, bins, labels) ==
    IF x = <<>> THEN NaNCat
    ELSE LET hits == {i \in 1..Len(labels) : bins[i] < x[1] /\ x[1] <= bins[i + 1]}
         IN  IF hits = {} THEN NaNCat ELSE labels[CHOOSE i \in hits : TRUE]

(* Lines 12-13: the Hour column is taken as given, else made from Start_Time. *)
WithHour(frame) ==
    IF "Hour" \in frame.columns THEN frame
    ELSE [columns |-> frame.columns \cup {"Hour"},
          rows |-> [i \in 1..Len(frame.rows) |->
                      [frame.rows[i] EXCEPT !.Hour = HourOf(frame.rows[i].Start_Time)]]]

(* Lines 14-16. *)
WithHourGroup(frame) ==
    [columns |-> frame.columns \cup {"Hour_Group"},
     rows |-> [i \in 1..Len(frame.rows) |->
                 [frame.rows[i] EXCEPT
                     !.Hour_Group = Cut(frame.rows[i].Hour, HourBins, HourLabels)]]]

(* Lines 19-22: only when the csv has the precipitation column. *)
WithPrecipBin(frame) ==
    IF "Precipitation(in)" \in frame.columns
    THEN [columns |-> frame.columns \cup {"Precipitation_Bin"},
          rows |-> [i \in 1..Len(frame.rows) |->
                      [frame.rows[i] EXCEPT
                          !.Precipitation_Bin =
                              Cut(frame.rows[i].Precip, PrecipBins, PrecipLabels)]]]
    ELSE frame

PrepareFrame(frame) == WithPrecipBin(WithHourGroup(WithHour(frame)))

---------------------------------------------------------------------------
(* The callback: filtering (lines 99-106) *)

(* Series.astype(str) on a categorical: the label, and "nan" for a missing *)
(* category.                                                               *)
AsStr(cat) == IF cat = NaNCat THEN "nan" ELSE cat

(* Line 102, taken when selected_states is neither None nor empty. *)
FilterByState(rows, selected_states) ==
    IF selected_states = {} THEN rows
    ELSE SelectSeq(rows, LAMBDA r : r.State \in selected_states)

(* Line 104. *)
FilterByHourGroup(rows, selected_hour_groups) ==
    IF selected_hour_groups = {} THEN rows
    ELSE SelectSeq(rows, LAMBDA r : r.Hour_Group \in selected_hour_groups)

(* Line 106. *)
FilterByPrecipBin(rows, selected_precip_bins) ==
    IF selected_precip_bins = {} THEN rows
    ELSE SelectSeq(rows, LAMBDA r : AsStr(r.Precipitation_Bin) \in selected_precip_bins)

(* Mutant of FilteredRows: the hour filter indexes the unfiltered copy. *)
FilteredRowsHourFromBase(rows, sel) ==
    FilterByPrecipBin(
        IF sel.hours = {} THEN FilterByState(rows, sel.states)
        ELSE FilterByHourGroup(rows, sel.hours),
        sel.precips)

(* Mutant of FilteredRows: the precipitation filter is not applied. *)
FilteredRowsNoPrecip(rows, sel) ==
    FilterByHourGroup(FilterByState(rows, sel.states), sel.hours)

(* Lines 99-106: each active filter narrows the result of the one before. *)
FilteredRows(rows, sel) ==
    FilterByPrecipBin(FilterByHourGroup(FilterByState(rows, sel.states), sel.hours),
                      sel.precips)

---------------------------------------------------------------------------
(* The callback: KPI numbers (lines 109-112) *)

(* The number of rows with the given value in the given column. *)
CountOf(rows, column, value) == Cardinality({i \in 1..Len(rows) : rows[i][column] = value})

(* DataFrame.sort_values(by="count"), default kind="quicksort": rows in    *)
(* order of count; the order of rows with equal counts is not promised and *)
(* follows the build's tie policy.                                         *)
RECURSIVE SortByCount(_, _, _)
SortByCount(tbl, ascending, policy) ==
    IF tbl = <<>> THEN <<>>
    ELSE LET counts == {tbl[i].count : i \in 1..Len(tbl)}
             key == IF ascending THEN SetMin(counts) ELSE SetMax(counts)
             ties == {i \in 1..Len(tbl) : tbl[i].count = key}
             pick == IF policy = "grouping" THEN SetMin(ties) ELSE SetMax(ties)
         IN  <<tbl[pick]>> \o SortByCount(RemoveAt(tbl, pick), ascending, policy)

(* DataFrame.head(n). *)
HeadRows(tbl, n) == SubSeq(tbl, 1, Min2(n, Len(tbl)))

(* Series.mode()[0]: the smallest of the most frequent values. *)
Mode0(values) ==
    LET freq(v) == Cardinality({i \in 1..Len(values) : values[i] = v})
        top == SetMax({freq(v) : v \in Range(values)})
    IN  SetMin({v \in Range(values) : freq(v) = top})

(* Line 110; the value is held as the text the KPI card shows. *)
MostCommonSeverity(rows) ==
    IF Len(rows) > 0
    THEN ToString(Mode0([i \in 1..Len(rows) |-> rows[i].Severity]))
    ELSE NA

(* Series.value_counts() of the categorical Hour_Group: one entry for each *)
(* category, also those no row has, missing values dropped, sorted by      *)
(* count descending.                                                       *)
HourGroupValueCounts(rows, policy) ==
    SortByCount([k \in 1..Len(HourLabels) |->
                    [key |-> HourLabels[k],
                     count |-> CountOf(rows, "Hour_Group", HourLabels[k])]],
                FALSE, policy)

(* Mutant of BusiestHourGroup: the emptiness guard is left out. *)
BusiestHourGroupUnguarded(rows, policy) == HourGroupValueCounts(rows, policy)[1].key

(* Line 111: idxmax is the label of the first largest count. *)
BusiestHourGroup(rows, policy) ==
    IF Len(rows) > 0 THEN HourGroupValueCounts(rows, policy)[1].key ELSE NA

Number(n, d) == [nan |-> FALSE, num |-> n, den |-> d]
NaNNumber == [nan |-> TRUE, num |-> 0, den |-> 1]

(* Series.mean(): missing cells skipped; NaN when no cell is left. *)
Mean(cells) ==
    LET present == SelectSeq(cells, LAMBDA c : c # <<>>)
    IN  IF present = <<>> THEN NaNNumber
        ELSE Number(SumSeq([i \in 1..Len(present) |-> present[i][1]]), Len(present))

(* Line 112. *)
AvgPrecip(columns, rows) ==
    IF "Precipitation(in)" \in columns
    THEN Mean([i \in 1..Len(rows) |-> rows[i].Precip])
    ELSE Number(0, 1)

---------------------------------------------------------------------------
(* The callback: chart tables (lines 122-142) *)

(* Line 122: value_counts(normalize=True) * 100; keys in order of first    *)
(* appearance, sorted by count descending, each as a share of 100.         *)
SeverityCounts(rows, policy) ==
    LET keys == Unique([i \in 1..Len(rows) |-> rows[i].Severity])
        tbl == SortByCount([k \in 1..Len(keys) |->
                              [key |-> keys[k],
                               count |-> CountOf(rows, "Severity", keys[k])]],
                           FALSE, policy)
    IN  [k \in 1..Len(tbl) |->
            [key |-> tbl[k].key, pct |-> Number(100 * tbl[k].count, Len(rows))]]

(* groupby(key, observed=True).size().reset_index(name="count"): one row   *)
(* for each key some row has, in key order; rows with a missing key are    *)
(* in no group.                                                            *)
GroupSize(rows, keys, column) ==
    LET all == [k \in 1..Len(keys) |->
                   [key |-> keys[k], count |-> CountOf(rows, column, keys[k])]]
    IN  SelectSeq(all, LAMBDA g : g.count > 0)

(* Mutant of AccidentsByHour: observed=False, a row for every category. *)
AccidentsByHourAllCategories(rows) ==
    [k \in 1..Len(HourLabels) |->
        [key |-> HourLabels[k],
         count |-> CountOf(rows, "Hour_Group", HourLabels[k])]]

(* Line 131. *)
AccidentsByHour(rows) == GroupSize(rows, HourLabels, "Hour_Group")

(* Line 132: the bar chart draws the table sorted by count ascending. *)
FigHour(rows, policy) == SortByCount(AccidentsByHour(rows), TRUE, policy)

(* Line 137. *)
AccidentsByPrecip(rows) == GroupSize(rows, PrecipLabels, "Precipitation_Bin")

(* Mutant of AccidentsByState: head(10) is taken before the sort. *)
AccidentsByStateHeadFirst(rows, policy) ==
    SortByCount(HeadRows(GroupSize(rows, StateOrder, "State"), TopN),
                FALSE, policy)

(* Line 142. *)
AccidentsByState(rows, policy) ==
    HeadRows(SortByCount(GroupSize(rows, StateOrder, "State"), FALSE, policy),
             TopN)

(* What one call of update_dashboard hands back: the four KPI values and   *)
(* the data of the five figures.  error is TRUE when the call raised.      *)
NoResult ==
    [error |-> FALSE, total |-> 0, most_common_severity |-> NA,
     busiest_hour_group |-> NA, avg_precip |-> Number(0, 1), severity_counts |-> <<>>,
     accidents_by_hour |-> <<>>, fig_hour |-> <<>>, accidents_by_precip |-> <<>>,
     accidents_by_state |-> <<>>, map_rows |-> <<>>]

KeyErrorResult == [NoResult EXCEPT !.error = TRUE]

(* Lines 101-158 on the copy taken at line 99.  Reading the column         *)
(* Precipitation_Bin of a frame that has none raises KeyError (line 106    *)
(* when a bin is selected, line 137 in every call).                        *)
UpdateResult(frame, sel, policy) ==
    IF "Precipitation_Bin" \notin frame.columns THEN KeyErrorResult
    ELSE LET filtered_df == FilteredRows(frame.rows, sel)
         IN  [error |-> FALSE,
              total |-> Len(filtered_df),
              most_common_severity |-> MostCommonSeverity(filtered_df),
              busiest_hour_group |-> BusiestHourGroup(filtered_df, policy),
              avg_precip |-> AvgPrecip(frame.columns, filtered_df),
              severity_counts |-> SeverityCounts(filtered_df, policy),
              accidents_by_hour |-> AccidentsByHour(filtered_df),
              fig_hour |-> FigHour(filtered_df, policy),
              accidents_by_precip |-> AccidentsByPrecip(filtered_df),
              accidents_by_state |-> AccidentsByState(filtered_df, policy),
              map_rows |-> filtered_df]

(* Mutant of SharedAfterCall: the filters are applied to df itself. *)
SharedAfterCallInPlace(shared, frame, sel) ==
    [shared EXCEPT !.rows = FilteredRows(frame.rows, sel)]

(* Lines 99-106 assign only the local name filtered_df, first to a copy of *)
(* df and then to new frames: the module-level df is left as it was.       *)
SharedAfterCall(shared, frame, sel) == shared

---------------------------------------------------------------------------
(* The csv files the model is run on *)

Row(state, severity, start_time, hour, precip) ==
    [State |-> state, Severity |-> severity, Start_Time |-> start_time, Hour |-> hour,
     Precip |-> precip, Hour_Group |-> NaNCat, Precipitation_Bin |-> NaNCat]

BaseColumns == {"State", "Severity", "Start_Lat", "Start_Lng", "City"}

(* Rows of the general family: the three rows of the documented scenario. *)
RowUniverse ==
    <<Row("CA", 2, <<1, 3>>, <<>>, <<0>>),
      Row("CA", 3, <<1, 14>>, <<>>, <<20>>),
      Row("NY", 2, <<2, 14>>, <<>>, <<>>)>>

(* Every choice of up to n rows of RowUniverse, repeats allowed, listed in *)
(* the order of RowUniverse.                                               *)
RowChoices(n) ==
    LET picks == UNION {[1..k -> 1..Len(RowUniverse)] : k \in 0..n}
        ordered == {p \in picks : \A i \in 1..(Len(p) - 1) : p[i] <= p[i + 1]}
    IN  {[i \in 1..Len(p) |-> RowUniverse[p[i]]] : p \in ordered}

(* Files with a Start_Time column, with and without the precipitation column. *)
GeneralFiles ==
    {[columns |-> BaseColumns \cup {"Start_Time"} \cup extra, rows |-> rows] :
        extra \in {{}, {"Precipitation(in)"}}, rows \in RowChoices(MaxRows)}

ScenarioFile ==
    [columns |-> BaseColumns \cup {"Start_Time", "Precipitation(in)"},
     rows |-> <<Row("CA", 2, <<1, 3>>, <<>>, <<0>>),
                Row("CA", 3, <<1, 14>>, <<>>, <<20>>),
                Row("NY", 2, <<2, 14>>, <<>>, <<>>)>>]

(* Files with a precomputed Hour column: one row, its hour any value from  *)
(* -1 to MaxHour, or missing; and one file of a row with a missing hour    *)
(* before a row at hour 20 with an amount above the last bin edge.         *)
HourInputs == {<<>>} \cup {<<h - 1>> : h \in 0..(MaxHour + 1)}

HourFiles ==
    {[columns |-> BaseColumns \cup {"Hour", "Precipitation(in)"},
      rows |-> <<Row("CA", 2, <<>>, h, <<0>>)>>] : h \in HourInputs}
    \cup {[columns |-> BaseColumns \cup {"Hour", "Precipitation(in)"},
            rows |-> <<Row("CA", 2, <<>>, <<>>, <<0>>),
                       Row("NY", 3, <<>>, <<20>>, <<6000>>)>>]}

(* Files with one row for each state of StateOrder and a second row for    *)
(* the states in twice: more than TopN groups, with and without ties.      *)
ManyStatesRows(twice) ==
    LET n == Len(StateOrder)
        extra == SelectSeq(StateOrder, LAMBDA st : st \in twice)
    IN  [i \in 1..(n + Len(extra)) |->
            Row(IF i <= n THEN StateOrder[i] ELSE extra[i - n], 2, <<1, 3>>, <<>>, <<>>)]

ManyStatesFiles ==
    {[columns |-> BaseColumns \cup {"Start_Time", "Precipitation(in)"},
      rows |-> ManyStatesRows(twice)] :
        twice \in {{}, {StateOrder[1]}, {StateOrder[Len(StateOrder)]},
                   {StateOrder[2], StateOrder[Len(StateOrder)]},
                   {StateOrder[TopN], StateOrder[TopN + 1]}}}

Files == GeneralFiles \cup {ScenarioFile} \cup HourFiles \cup ManyStatesFiles

---------------------------------------------------------------------------
(* The state machine *)

NoSelection == [states |-> {}, hours |-> {}, precips |-> {}]

NoFrame == [columns |-> {}, rows |-> <<>>]

NoOptions == [states |-> {}, hours |-> {}, precips |-> {}]

IdleCall == [pc |-> "idle", sel |-> NoSelection, frame |-> NoFrame, result |-> NoResult]

(* Line 9: df is the file as read. *)
Init ==
    /\ raw \in Files
    /\ df = raw
    /\ tiePolicy \in TiePolicies
    /\ mainPc = "loaded"
    /\ options = NoOptions
    /\ calls = [c \in Threads |-> IdleCall]

(* Lines 12-22. *)
Prepare ==
    /\ mainPc = "loaded"
    /\ df' = PrepareFrame(df)
    /\ mainPc' = "prepared"
    /\ UNCHANGED <<raw, tiePolicy, options, calls>>

(* Lines 38, 46, 54: the option lists of the three dropdowns. *)
DropdownOptions(frame) ==
    [states |-> {frame.rows[i].State : i \in 1..Len(frame.rows)},
     hours |-> {frame.rows[i].Hour_Group : i \in 1..Len(frame.rows)} \ {NaNCat},
     precips |-> {frame.rows[i].Precipitation_Bin : i \in 1..Len(frame.rows)} \ {NaNCat}]

(* Lines 27-81: building the layout reads df["Precipitation_Bin"] (line    *)
(* 54), which raises KeyError and ends the program when df has no such     *)
(* column; otherwise the callback is registered and the app serves.        *)
BuildLayout ==
    /\ mainPc = "prepared"
    /\ IF "Precipitation_Bin" \in df.columns
       THEN /\ options' = DropdownOptions(df)
            /\ mainPc' = "serving"
       ELSE /\ options' = options
            /\ mainPc' = "crashed"
    /\ UNCHANGED <<raw, df, tiePolicy, calls>>

(* The values a multi-select dropdown can send: nothing, one option, or    *)
(* all of them.                                                            *)
ChoicesOf(opts) == {{}} \cup {{o} : o \in opts} \cup {opts}

Selections ==
    [states : ChoicesOf(options.states), hours : ChoicesOf(options.hours),
     precips : ChoicesOf(options.precips)]

(* A filter was changed: a free server thread enters update_dashboard with *)
(* the three dropdown values and takes its copy of df (line 99).           *)
BeginUpdate(c) ==
    /\ mainPc = "serving"
    /\ calls[c].pc = "idle"
    /\ \E sel \in Selections :
          calls' = [calls EXCEPT ![c] =
                      [pc |-> "running", sel |-> sel, frame |-> df, result |-> NoResult]]
    /\ UNCHANGED <<raw, df, tiePolicy, mainPc, options>>

(* Lines 101-158: the rest of update_dashboard, on the copy, which is      *)
(* dropped at the return.                                                  *)
FinishUpdate(c) ==
    /\ calls[c].pc = "running"
    /\ calls' = [calls EXCEPT ![c].pc = "done",
                              ![c].frame = NoFrame,
                              ![c].result = UpdateResult(calls[c].frame, calls[c].sel,
                                                         tiePolicy)]
    /\ df' = SharedAfterCall(df, calls[c].frame, calls[c].sel)
    /\ UNCHANGED <<raw, tiePolicy, mainPc, options>>

(* The response has been sent; the thread is free for the next request. *)
Respond(c) ==
    /\ calls[c].pc = "done"
    /\ calls' = [calls EXCEPT ![c] = IdleCall]
    /\ UNCHANGED <<raw, df, tiePolicy, mainPc, options>>

Next ==
    \/ Prepare
    \/ BuildLayout
    \/ \E c \in Threads : BeginUpdate(c)
    \/ \E c \in Threads : FinishUpdate(c)
    \/ \E c \in Threads : Respond(c)

Spec == Init /\ [][Next]_vars

---------------------------------------------------------------------------
(* Vocabulary of the properties, stated over the shared frame df *)

Done(c) == calls[c].pc = "done"

(* Row r passes every active filter of sel; a missing bucket passes none. *)
Satisfies(r, sel) ==
    /\ sel.states = {} \/ r.State \in sel.states
    /\ sel.hours = {} \/ (r.Hour_Group # NaNCat /\ r.Hour_Group \in sel.hours)
    /\ sel.precips = {} \/ (r.Precipitation_Bin # NaNCat /\ r.Precipitation_Bin \in sel.precips)

(* Positions in df of the rows that pass sel. *)
Passing(sel) == {i \in 1..Len(df.rows) : Satisfies(df.rows[i], sel)}

InHourGroup(sel, g) == {i \in Passing(sel) : df.rows[i].Hour_Group = g}

InPrecipBin(sel, b) == {i \in Passing(sel) : df.rows[i].Precipitation_Bin = b}

InState(sel, st) == {i \in Passing(sel) : df.rows[i].State = st}

Keys(tbl) == {tbl[i].key : i \in 1..Len(tbl)}

StateIndex(st) == CHOOSE k \in 1..Len(StateOrder) : StateOrder[k] = st

(* C1: the total a finished call reports is the number of rows of df that  *)
(* satisfy all active membership constraints at once.                      *)
C1_TotalIsConjunctiveCount ==
    \A c \in Threads :
        Done(c) => /\ ~calls[c].result.error
                   /\ calls[c].result.total = Cardinality(Passing(calls[c].sel))

(* C1 witness: a finished call with all three filters active that kept     *)
(* some rows and dropped others.                                           *)
C1_Witness ==
    \E c \in Threads :
        /\ Done(c)
        /\ calls[c].sel.states # {} /\ calls[c].sel.hours # {} /\ calls[c].sel.precips # {}
        /\ calls[c].result.total >= 1
        /\ calls[c].result.total < Len(df.rows)

(* C2: when the csv has no precipitation column, start-up and every call   *)
(* complete without raising.                                               *)
C2_NoErrorWithoutPrecipColumn ==
    "Precipitation(in)" \notin raw.columns =>
        /\ mainPc # "crashed"
        /\ \A c \in Threads : ~calls[c].result.error

(* C3: a finished call whose filtered set is empty reports total 0, the    *)
(* "N/A" markers, and empty tables, without error.                         *)
C3_EmptyResultDegrades ==
    \A c \in Threads :
        (Done(c) /\ Passing(calls[c].sel) = {}) =>
            /\ ~calls[c].result.error
            /\ calls[c].result.total = 0
            /\ calls[c].result.most_common_severity = NA
            /\ calls[c].result.busiest_hour_group = NA
            /\ calls[c].result.accidents_by_hour = <<>>
            /\ calls[c].result.accidents_by_precip = <<>>
            /\ calls[c].result.severity_counts = <<>>
            /\ calls[c].result.accidents_by_state = <<>>
            /\ calls[c].result.map_rows = <<>>

(* C3 witness: a finished call on a non-empty frame whose filters no row   *)
(* passes.                                                                 *)
C3_Witness ==
    \E c \in Threads :
        Done(c) /\ Len(df.rows) > 0 /\ Passing(calls[c].sel) = {}

(* C4: the mean precipitation a finished call reports is the mean of the   *)
(* non-missing amounts of the filtered rows, and is the number 0 when no   *)
(* filtered row has an amount.                                             *)
C4_MeanPrecipitation ==
    \A c \in Threads :
        Done(c) =>
            LET known == {i \in Passing(calls[c].sel) : df.rows[i].Precip # <<>>}
                amounts == [i \in 1..Len(df.rows) |->
                               IF i \in known THEN df.rows[i].Precip[1] ELSE 0]
                avg == calls[c].result.avg_precip
            IN  /\ ~avg.nan
                /\ IF known = {} THEN avg.num = 0
                   ELSE avg.num * Cardinality(known) = SumSeq(amounts) * avg.den

(* C5: whatever calls have run or are running, df is what start-up made of *)
(* the file, and two finished calls with the same selection hold the same  *)
(* result.                                                                 *)
C5_SharedFrameUntouched ==
    /\ mainPc = "serving" => df = PrepareFrame(raw)
    /\ \A a, b \in Threads :
          (Done(a) /\ Done(b) /\ calls[a].sel = calls[b].sel) =>
              calls[a].result = calls[b].result

(* C5 witness: both threads have finished a call with the same filtering   *)
(* selection that dropped some rows.                                       *)
C5_Witness ==
    /\ \A c \in Threads : Done(c)
    /\ calls[1].sel = calls[2].sel
    /\ calls[1].result.total >= 1
    /\ calls[1].result.total < Len(df.rows)

(* S2 is S1 with one unconstrained dimension given a non-empty selection. *)
AddsConstraint(S1, S2) ==
    \/ S1.states = {} /\ S2.states # {} /\ S1.hours = S2.hours /\ S1.precips = S2.precips
    \/ S1.hours = {} /\ S2.hours # {} /\ S1.states = S2.states /\ S1.precips = S2.precips
    \/ S1.precips = {} /\ S2.precips # {} /\ S1.states = S2.states /\ S1.hours = S2.hours

(* C6: adding a constraint to a selection never raises the total. *)
C6_Monotone ==
    \A a, b \in Threads :
        (Done(a) /\ Done(b) /\ AddsConstraint(calls[a].sel, calls[b].sel)) =>
            calls[b].result.total <= calls[a].result.total

(* C6 witness: two finished calls, the second with one more constraint on  *)
(* an already filtered selection, and a strictly smaller non-zero total.   *)
C6_Witness ==
    \E a, b \in Threads :
        /\ Done(a) /\ Done(b) /\ AddsConstraint(calls[a].sel, calls[b].sel)
        /\ calls[a].sel # NoSelection
        /\ 0 < calls[b].result.total
        /\ calls[b].result.total < calls[a].result.total

(* tbl lists exactly the keys with a non-empty group, once each, with the  *)
(* size of the group; group maps each label to its set of filtered rows.  *)
ExactCounts(tbl, group) ==
    /\ Keys(tbl) = {l \in DOMAIN group : group[l] # {}}
    /\ Cardinality(Keys(tbl)) = Len(tbl)
    /\ \A i \in 1..Len(tbl) :
          tbl[i].count = Cardinality(group[tbl[i].key]) /\ tbl[i].count >= 1

(* C7: the counts-by-Hour_Group and counts-by-Precipitation_Bin tables of  *)
(* a finished call list exactly the buckets some filtered row is in, each  *)
(* with its number of filtered rows.                                       *)
C7_GroupCountsExact ==
    \A c \in Threads :
        Done(c) =>
            /\ ExactCounts(calls[c].result.accidents_by_hour,
                           [g \in Range(HourLabels) |-> InHourGroup(calls[c].sel, g)])
            /\ ExactCounts(calls[c].result.accidents_by_precip,
                           [b \in Range(PrecipLabels) |-> InPrecipBin(calls[c].sel, b)])

(* C7 witness: a finished call whose filtered rows fall in one hour group  *)
(* and in one precipitation bin, with a count above 1.                     *)
C7_Witness ==
    \E c \in Threads :
        /\ Done(c)
        /\ Len(calls[c].result.accidents_by_hour) = 1
        /\ Len(calls[c].result.accidents_by_precip) = 1
        /\ calls[c].result.accidents_by_hour[1].count > 1

(* The part of C8 that does not speak of ties: at most TopN entries and at *)
(* most one for each state present, counts exact and non-increasing, and   *)
(* no state left out with a larger count than a listed one.                *)
TopStatesRanked(c) ==
    LET tbl == calls[c].result.accidents_by_state
        present == {st \in Range(StateOrder) : InState(calls[c].sel, st) # {}}
    IN  /\ Len(tbl) <= TopN
        /\ Len(tbl) <= Cardinality(present)
        /\ Len(tbl) = Min2(TopN, Cardinality(present))
        /\ Cardinality(Keys(tbl)) = Len(tbl)
        /\ Keys(tbl) \subseteq present
        /\ \A i \in 1..Len(tbl) :
              tbl[i].count = Cardinality(InState(calls[c].sel, tbl[i].key))
        /\ \A i \in 1..(Len(tbl) - 1) : tbl[i].count >= tbl[i + 1].count
        /\ \A st \in present \ Keys(tbl) : \A i \in 1..Len(tbl) :
              Cardinality(InState(calls[c].sel, st)) <= tbl[i].count

(* Listed states with equal counts are in grouping order. *)
TopStatesTiesInGroupingOrder(c) ==
    LET tbl == calls[c].result.accidents_by_state
    IN  \A i, j \in 1..Len(tbl) :
            (i < j /\ tbl[i].count = tbl[j].count) =>
                StateIndex(tbl[i].key) < StateIndex(tbl[j].key)

C9_BusiestHourGroupIsMode ==
    \A c \in Threads :
        Done(c) =>
            LET g == calls[c].result.busiest_hour_group
            IN  IF Passing(calls[c].sel) = {} THEN g = NA
                ELSE /\ g \in Range(HourLabels)
                     /\ InHourGroup(calls[c].sel, g) # {}
                     /\ \A h \in Range(HourLabels) :
                           Cardinality(InHourGroup(calls[c].sel, h))
                               <= Cardinality(InHourGroup(calls[c].sel, g))

(* The hour the file gives for a row: its Hour cell, or the hour of its    *)
(* start time when the file has no Hour column.                            *)
FileHour(i) ==
    IF "Hour" \in raw.columns THEN raw.rows[i].Hour
    ELSE IF raw.rows[i].Start_Time = <<>> THEN <<>> ELSE <<raw.rows[i].Start_Time[2]>>

HourGroupOfHour(h) ==
    IF h = <<>> THEN NaNCat
    ELSE IF h[1] \in 0..5 THEN "Night"
    ELSE IF h[1] \in 6..11 THEN "Morning"
    ELSE IF h[1] \in 12..17 THEN "Afternoon"
    ELSE IF h[1] \in 18..23 THEN "Evening"
    ELSE NaNCat

(* C10: after preparation df has the rows of the file, one for one and     *)
(* otherwise unchanged, each with the Hour_Group of its hour: Night for    *)
(* 0-5, Morning for 6-11, Afternoon for 12-17, Evening for 18-23, and      *)
(* undefined for a missing hour or one outside 0..23.                      *)
C10_HourGroupOfEveryRow ==
    mainPc # "loaded" =>
        /\ Len(df.rows) = Len(raw.rows)
        /\ \A i \in 1..Len(raw.rows) :
              /\ df.rows[i].State = raw.rows[i].State
              /\ df.rows[i].Severity = raw.rows[i].Severity
              /\ df.rows[i].Start_Time = raw.rows[i].Start_Time
              /\ df.rows[i].Precip = raw.rows[i].Precip
              /\ df.rows[i].Hour_Group = HourGroupOfHour(FileHour(i))

(* C10 witness: a prepared frame with a row whose hour is above 23 and     *)
(* whose Hour_Group is undefined.                                          *)
C10_Witness ==
    /\ mainPc # "loaded"
    /\ \E i \in 1..Len(raw.rows) :
          /\ "Hour" \in raw.columns
          /\ raw.rows[i].Hour = <<MaxHour>>
          /\ df.rows[i].Hour_Group = NaNCat

====
